---- MODULE Spec2Model ----
(***************************************************************************)
(* DocterDash-backend: the slot handler of the doctor controller,          *)
(* exports.getDoctorSlotsForDate (src/src/controllers/docter.controller.js *)
(* lines 128-205), run by Node's single-threaded event loop.               *)
(*                                                                         *)
(* Strings are sequences of one-character strings ("09:00" is              *)
(* <<"0","9",":","0","0">>), so that formatting (toString, padStart),      *)
(* parsing (split, Number) and Array.prototype.includes are computed on    *)
(* characters, as the engine computes them.                                *)
(***************************************************************************)
EXTENDS Integers, Sequences, FiniteSets

(***************************************************************************)
(* Bounds of the model.                                                    *)
(***************************************************************************)
\* number of handler invocations that may be in flight at once
MaxRequests == 2
\* the largest number of slots a day with well-formed sessions generates
MaxDaySlots == 10
\* array length at which the engine's heap is exhausted (a real heap holds
\* far more than any well-formed day; the gap keeps the two apart)
MaxHeapSlots == MaxDaySlots + 2

Requests == 1 .. MaxRequests

(***************************************************************************)
(* JavaScript string and number primitives used by the handler.            *)
(***************************************************************************)
DigitChars == <<"0", "1", "2", "3", "4", "5", "6", "7", "8", "9">>

DigitChar(n) == DigitChars[n + 1]

IsDigit(c) == \E n \in 0 .. 9 : DigitChars[n + 1] = c

DigitVal(c) == CHOOSE n \in 0 .. 9 : DigitChars[n + 1] = c

\* Number.prototype.toString of a non-negative integer
RECURSIVE NatToString(_)
NatToString(n) ==
    IF n < 10 THEN <<DigitChar(n)>>
    ELSE NatToString(n \div 10) \o <<DigitChar(n % 10)>>

\* Number.prototype.toString of an integer
ToString(n) == IF n < 0 THEN <<"-">> \o NatToString(0 - n) ELSE NatToString(n)

\* String.prototype.padStart(len, c): pads on the left, never truncates
RECURSIVE PadStart(_, _, _)
PadStart(s, len, c) ==
    IF Len(s) >= len THEN s ELSE PadStart(<<c>> \o s, len, c)

\* Math.floor(a / 60) on integers (TLA+ \div rounds towards minus infinity)
FloorDiv(a, b) == a \div b

\* the JavaScript % operator: the result takes the sign of the dividend
JsRem(a, b) == IF a >= 0 THEN a % b ELSE 0 - ((0 - a) % b)

\* String.prototype.split(sep) for a one-character separator
RECURSIVE SplitFrom(_, _, _, _)
SplitFrom(s, sep, i, cur) ==
    IF i > Len(s) THEN <<cur>>
    ELSE IF s[i] = sep THEN <<cur>> \o SplitFrom(s, sep, i + 1, <<>>)
    ELSE SplitFrom(s, sep, i + 1, Append(cur, s[i]))

Split(s, sep) == SplitFrom(s, sep, 1, <<>>)

\* Number(s) for a string of decimal digits (Number("") is 0)
RECURSIVE NumberOf(_)
NumberOf(s) ==
    IF Len(s) = 0 THEN 0
    ELSE 10 * NumberOf(SubSeq(s, 1, Len(s) - 1)) + DigitVal(s[Len(s)])

\* const [h, m] = t.split(":").map(Number); h * 60 + m
ParseMinutes(t) ==
    LET parts == Split(t, ":")
        h == NumberOf(parts[1])
        m == NumberOf(parts[2])
    IN  h * 60 + m

\* `${slotHour}:${slotMin}` of lines 169-174
FormatSlot(min) ==
    LET slotHour == PadStart(ToString(FloorDiv(min, 60)), 2, "0")
        slotMin  == PadStart(ToString(JsRem(min, 60)), 2, "0")
    IN  slotHour \o <<":">> \o slotMin

\* Array.prototype.includes: strict equality of strings
Includes(arr, x) == \E i \in 1 .. Len(arr) : arr[i] = x

(***************************************************************************)
(* new Date("YYYY-MM-DD").getDay(), line 145.  A date-only ISO string is   *)
(* parsed as midnight UTC; getDay() reads the weekday in the local time    *)
(* zone of the process.  A query date is [present, y, m, d]; a request     *)
(* without ?date= has present = FALSE.                                     *)
(***************************************************************************)
MinutesPerDay == 1440

\* days from 1970-01-01 to the civil date y-m-d (proleptic Gregorian)
DaysFromCivil(y, m, d) ==
    LET yy  == IF m <= 2 THEN y - 1 ELSE y
        era == yy \div 400
        yoe == yy - era * 400
        mp  == IF m > 2 THEN m - 3 ELSE m + 9
        doy == (153 * mp + 2) \div 5 + d - 1
        doe == yoe * 365 + yoe \div 4 - yoe \div 100 + doy
    IN  era * 146097 + doe - 719468

\* Date.parse of a date-only string: minutes since the epoch, UTC
ParseDateUTC(date) == DaysFromCivil(date.y, date.m, date.d) * MinutesPerDay

\* Date.prototype.getDay: weekday of the local day (1970-01-01 was a Thursday)
GetDay(utcMinutes, offset) ==
    ((utcMinutes + offset) \div MinutesPerDay + 4) % 7

\* new Date(date).getDay() in a process whose zone is `offset` minutes east of UTC
DayIndexOf(date, offset) == GetDay(ParseDateUTC(date), offset)

(***************************************************************************)
(* Stored data: schedule templates and appointment records.                *)
(***************************************************************************)
Session(st, en, dur) ==
    [startTime |-> st, endTime |-> en, slotDurationMinutes |-> dur]

DayTemplate(dow, working, sess) ==
    [dayOfWeek |-> dow, isWorking |-> working, sessions |-> sess]

Appointment(doc, date, st, time) ==
    [doctorId |-> doc, date |-> date, status |-> st, startTime |-> time]

QueryDate(y, m, d) == [present |-> TRUE, y |-> y, m |-> m, d |-> d]

NoDate == [present |-> FALSE, y |-> 0, m |-> 0, d |-> 0]

t0020 == <<"0", "0", ":", "2", "0">>
t0900 == <<"0", "9", ":", "0", "0">>
t0930 == <<"0", "9", ":", "3", "0">>
t0940 == <<"0", "9", ":", "4", "0">>
t1000 == <<"1", "0", ":", "0", "0">>
t1005 == <<"1", "0", ":", "0", "5">>
t1030 == <<"1", "0", ":", "3", "0">>
t1100 == <<"1", "1", ":", "0", "0">>
t1200 == <<"1", "2", ":", "0", "0">>
t1300 == <<"1", "3", ":", "0", "0">>
t1400 == <<"1", "4", ":", "0", "0">>
t1500 == <<"1", "5", ":", "0", "0">>
t1600 == <<"1", "6", ":", "0", "0">>
\* a start time stored without zero padding
t940 == <<"9", ":", "4", "0">>

Mon0101 == QueryDate(2024, 1, 1)
Tue0102 == QueryDate(2024, 1, 2)
Wed0103 == QueryDate(2024, 1, 3)
Sun0303 == QueryDate(2024, 3, 3)

DatePool == {NoDate, Mon0101, Tue0102, Wed0103, Sun0303}

\* time zones of the server process, minutes east of UTC
\* (America/New_York in winter, UTC, Asia/Kolkata)
TzPool == {0 - 300, 0, 330}

KnownDoctors == {"d1"}

DoctorIdPool == {"d1", "dX"}

\* the number of slots a session with start < end and duration > 0 holds
SlotCount(s) ==
    LET a == ParseMinutes(s.startTime)
        b == ParseMinutes(s.endTime)
        d == s.slotDurationMinutes
    IN  IF a < b /\ d > 0 THEN (b - a + d - 1) \div d ELSE 0

\* a session the loop of lines 168-176 cannot leave
Divergent(s) ==
    /\ ParseMinutes(s.startTime) < ParseMinutes(s.endTime)
    /\ s.slotDurationMinutes <= 0

\* every start, end and duration, kept when a well-formed day fits the heap
SessionPool ==
    { s \in { Session(a, b, d) : a \in {t0020, t0900, t0940, t1000},
                                 b \in {t0900, t1000, t1005, t1200},
                                 d \in {0 - 30, 0, 20, 25, 30, 45} } :
        SlotCount(s) <= MaxDaySlots }

\* one working Tuesday with one session
SingleSessionTemplates ==
    { <<DayTemplate(2, TRUE, <<s>>)>> : s \in SessionPool }

\* morning and afternoon sessions with a gap (Monday: one session)
TplTwoSessions ==
    << DayTemplate(1, TRUE, <<Session(t0900, t1000, 20)>>),
       DayTemplate(2, TRUE, <<Session(t0900, t1200, 30), Session(t1400, t1600, 30)>>) >>

\* several rows for Tuesday: a non-working one first, then two working ones
TplDuplicateDays ==
    << DayTemplate(2, FALSE, <<Session(t0900, t1000, 20)>>),
       DayTemplate(1, TRUE, <<Session(t0900, t1000, 30)>>),
       DayTemplate(2, TRUE, <<Session(t1000, t1100, 30)>>),
       DayTemplate(2, TRUE, <<Session(t1200, t1300, 30)>>) >>

\* overlapping sessions
TplOverlap ==
    << DayTemplate(2, TRUE, <<Session(t0900, t1000, 30), Session(t0930, t1030, 30)>>) >>

\* a session with duration 0 followed by a well-formed session
TplZeroDuration ==
    << DayTemplate(2, TRUE, <<Session(t0900, t1000, 0), Session(t1000, t1100, 30)>>) >>

\* a session with a negative duration after a well-formed session
TplNegativeDuration ==
    << DayTemplate(2, TRUE, <<Session(t1000, t1100, 30), Session(t0020, t0900, 0 - 30)>>) >>

\* inverted and empty sessions before a well-formed session
TplInverted ==
    << DayTemplate(2, TRUE, <<Session(t1000, t0900, 30), Session(t0900, t0900, 30),
                              Session(t0900, t1000, 45)>>) >>

\* a working day without sessions; Monday is not a working day
TplNoSessions ==
    << DayTemplate(1, FALSE, <<>>), DayTemplate(2, TRUE, <<>>) >>

\* no rows at all (scheduleTemplate absent or empty)
TplEmpty == << >>

CuratedTemplates ==
    { TplTwoSessions, TplDuplicateDays, TplOverlap, TplZeroDuration,
      TplNegativeDuration, TplInverted, TplNoSessions, TplEmpty }

TemplatePool == CuratedTemplates \cup SingleSessionTemplates

ApptsNone == {}

ApptsSome ==
    { Appointment("d1", Tue0102, "booked", t0930),
      Appointment("d1", Tue0102, "booked", t1500),
      Appointment("d1", Tue0102, "booked", t1300),
      Appointment("d1", Tue0102, "booked", t940),
      Appointment("d1", Tue0102, "cancelled", t1000),
      Appointment("d1", Mon0101, "booked", t0900),
      Appointment("d2", Tue0102, "booked", t1100),
      Appointment("d1", Wed0103, "booked", t1000) }

ApptsFull ==
    { Appointment("d1", d, "booked", t) :
        d \in {Tue0102, Wed0103}, t \in {t0900, t0930, t1000, t1030} }

AppointmentPool == {ApptsNone, ApptsSome, ApptsFull}

(***************************************************************************)
(* State.  The first three variables are the world outside the handler:    *)
(* the time zone of the process and the two collections it reads.  The     *)
(* others are per invocation: the request, the locals of the handler, the  *)
(* responses written to res and the collaborator calls made.               *)
(***************************************************************************)
VARIABLES
    tzOffset,          \* time zone of the server process, minutes east of UTC
    scheduleTemplate,  \* Doctor collection: scheduleTemplate of doctor "d1"
    appointments,      \* Appointment collection
    pc,                \* where each invocation stands
    query,             \* req.query.date and req.params.id
    dayIndex,          \* line 145
    daySchedule,       \* line 146
    sessionIdx,        \* position of forEach in daySchedule.sessions
    startMin,          \* line 163
    endMin,            \* line 166
    generatedSlots,    \* line 159
    sent,              \* responses written to res, in order
    doctorLookups,     \* calls of Doctor.findById made by the invocation
    apptQueries,       \* calls of Appointment.find made by the invocation
    running,           \* invocation inside synchronous code (0: none)
    aborted            \* the process died of heap exhaustion

vars == << tzOffset, scheduleTemplate, appointments, pc, query, dayIndex,
           daySchedule, sessionIdx, startMin, endMin, generatedSlots, sent,
           doctorLookups, apptQueries, running, aborted >>

world == << tzOffset, scheduleTemplate, appointments >>

NoQuery == [date |-> NoDate, id |-> ""]

NoDaySchedule == [found |-> FALSE, sessions |-> << >>]

NoDoctor == [found |-> FALSE, scheduleTemplate |-> << >>]

(***************************************************************************)
(* The responses of the handler.                                           *)
(***************************************************************************)
Response(st, ok, msg, hasSlots, slots, hasTotal) ==
    [status |-> st, success |-> ok, message |-> msg, hasSlots |-> hasSlots,
     slots |-> slots, hasTotal |-> hasTotal,
     totalSlots |-> IF hasTotal THEN Len(slots) ELSE 0]

\* lines 134-137
DateRequired ==
    Response(400, FALSE, "Date is required as query parameter", FALSE, << >>, FALSE)

\* line 142
DoctorNotFoundResponse ==
    Response(404, FALSE, "Doctor not found", FALSE, << >>, FALSE)

\* lines 151-155
NotAvailable ==
    Response(200, TRUE, "Doctor not available on selected date", TRUE, << >>, FALSE)

\* lines 193-197
SlotsResponse(slots) == Response(200, TRUE, "", TRUE, slots, TRUE)

\* lines 200-203
ServerError == Response(500, FALSE, "Server error", FALSE, << >>, FALSE)

(***************************************************************************)
(* The pure steps of the handler.                                          *)
(***************************************************************************)
\* line 133: !date
DateMissing(date) == ~date.present

\* line 140: Doctor.findById(doctorId).lean()
FindById(id, tpl) ==
    IF id \in KnownDoctors
    THEN [found |-> TRUE, scheduleTemplate |-> tpl]
    ELSE NoDoctor

\* lines 146-148: Array.prototype.find, the first row that matches
FindDaySchedule(tpl, idx) ==
    LET hits == { i \in 1 .. Len(tpl) :
                    tpl[i].dayOfWeek = idx /\ tpl[i].isWorking }
    IN  IF hits = {} THEN NoDaySchedule
        ELSE LET first == CHOOSE i \in hits : \A j \in hits : i <= j
             IN  [found |-> TRUE, sessions |-> tpl[first].sessions]

\* the loop condition with the end included
LoopCondInclusive(cur, end) == cur <= end

\* line 168: the loop condition
LoopCond(cur, end) == cur < end

\* line 175: startMin += session.slotDurationMinutes
Advance(cur, dur) == cur + dur

\* a push that drops a time the array already holds
PushUnique(arr, x) == IF Includes(arr, x) THEN arr ELSE Append(arr, x)

\* line 174: generatedSlots.push(...)
Push(arr, x) == Append(arr, x)

\* one array at module level, shared by all invocations
SharedSlots(r) == 1

\* the invocation whose array a handler invocation pushes to and reads:
\* generatedSlots is a const local to the call (line 159)
SlotsOwner(r) == r

\* a query that forgets the status filter
FindBookedAnyStatus(appts, id, date) ==
    { a \in appts : a.doctorId = id /\ a.date = date }

\* lines 180-184: Appointment.find({doctorId, date, status: "booked"})
FindBooked(appts, id, date) ==
    { a \in appts : a.doctorId = id /\ a.date = date /\ a.status = "booked" }

\* line 186: bookedAppointments.map((a) => a.startTime), in some order
RECURSIVE StartTimes(_)
StartTimes(found) ==
    IF found = {} THEN << >>
    ELSE LET a == CHOOSE x \in found : TRUE
         IN  <<a.startTime>> \o StartTimes(found \ {a})

\* line 190
SlotStatus(bookedTimes, slot) ==
    IF Includes(bookedTimes, slot) THEN "booked" ELSE "available"

\* lines 188-191
Annotate(slots, bookedTimes) ==
    [i \in 1 .. Len(slots) |->
        [time |-> slots[i], status |-> SlotStatus(bookedTimes, slots[i])]]

(***************************************************************************)
(* Initial states: a server process in some time zone, a stored template   *)
(* and stored appointments; no invocation in flight.                       *)
(***************************************************************************)
InitLocals ==
    /\ pc = [r \in Requests |-> "idle"]
    /\ query = [r \in Requests |-> NoQuery]
    /\ dayIndex = [r \in Requests |-> 0]
    /\ daySchedule = [r \in Requests |-> NoDaySchedule]
    /\ sessionIdx = [r \in Requests |-> 0]
    /\ startMin = [r \in Requests |-> 0]
    /\ endMin = [r \in Requests |-> 0]
    /\ generatedSlots = [r \in Requests |-> << >>]
    /\ sent = [r \in Requests |-> << >>]
    /\ doctorLookups = [r \in Requests |-> 0]
    /\ apptQueries = [r \in Requests |-> 0]
    /\ running = 0
    /\ aborted = FALSE

Init ==
    /\ tzOffset \in TzPool
    /\ scheduleTemplate \in TemplatePool
    /\ appointments \in AppointmentPool
    /\ InitLocals

(***************************************************************************)
(* The handler, one action per synchronous stretch between awaits; the     *)
(* forEach and while loops of lines 160-177 are taken one iteration at a   *)
(* time while the invocation holds the thread (running = r).               *)
(***************************************************************************)
Respond(r, resp) ==
    /\ sent' = [sent EXCEPT ![r] = Append(@, resp)]
    /\ pc' = [pc EXCEPT ![r] = "done"]

\* lines 130-138: a request without a date is answered 400
RejectNoDate(r, date, id) ==
    /\ ~aborted /\ running = 0 /\ pc[r] = "idle"
    /\ DateMissing(date)
    /\ query' = [query EXCEPT ![r] = [date |-> date, id |-> id]]
    /\ Respond(r, DateRequired)
    /\ UNCHANGED << world, dayIndex, daySchedule, sessionIdx, startMin, endMin,
                    generatedSlots, doctorLookups, apptQueries, running, aborted >>

\* lines 130-140: a request with a date starts the doctor lookup and awaits it
LookupDoctor(r, date, id) ==
    /\ ~aborted /\ running = 0 /\ pc[r] = "idle"
    /\ ~DateMissing(date)
    /\ query' = [query EXCEPT ![r] = [date |-> date, id |-> id]]
    /\ doctorLookups' = [doctorLookups EXCEPT ![r] = @ + 1]
    /\ pc' = [pc EXCEPT ![r] = "awaitDoctor"]
    /\ UNCHANGED << world, dayIndex, daySchedule, sessionIdx, startMin, endMin,
                    generatedSlots, sent, apptQueries, running, aborted >>

\* line 140 rejects (database error, malformed id): lines 198-203
DoctorLookupFails(r) ==
    /\ ~aborted /\ running = 0 /\ pc[r] = "awaitDoctor"
    /\ Respond(r, ServerError)
    /\ UNCHANGED << world, query, dayIndex, daySchedule, sessionIdx, startMin,
                    endMin, generatedSlots, doctorLookups, apptQueries, running,
                    aborted >>

\* lines 141-143
DoctorNotFound(r) ==
    /\ ~aborted /\ running = 0 /\ pc[r] = "awaitDoctor"
    /\ ~FindById(query[r].id, scheduleTemplate).found
    /\ Respond(r, DoctorNotFoundResponse)
    /\ UNCHANGED << world, query, dayIndex, daySchedule, sessionIdx, startMin,
                    endMin, generatedSlots, doctorLookups, apptQueries, running,
                    aborted >>

\* lines 145-156: no working row for the day index
DayNotWorking(r) ==
    LET doctor == FindById(query[r].id, scheduleTemplate)
        idx    == DayIndexOf(query[r].date, tzOffset)
        day    == FindDaySchedule(doctor.scheduleTemplate, idx)
    IN  /\ ~aborted /\ running = 0 /\ pc[r] = "awaitDoctor"
        /\ doctor.found
        /\ ~day.found
        /\ dayIndex' = [dayIndex EXCEPT ![r] = idx]
        /\ daySchedule' = [daySchedule EXCEPT ![r] = day]
        /\ Respond(r, NotAvailable)
        /\ UNCHANGED << world, query, sessionIdx, startMin, endMin,
                        generatedSlots, doctorLookups, apptQueries, running,
                        aborted >>

\* lines 145-160: a working row is found and forEach begins
BeginGeneration(r) ==
    LET doctor == FindById(query[r].id, scheduleTemplate)
        idx    == DayIndexOf(query[r].date, tzOffset)
        day    == FindDaySchedule(doctor.scheduleTemplate, idx)
    IN  /\ ~aborted /\ running = 0 /\ pc[r] = "awaitDoctor"
        /\ doctor.found
        /\ day.found
        /\ dayIndex' = [dayIndex EXCEPT ![r] = idx]
        /\ daySchedule' = [daySchedule EXCEPT ![r] = day]
        /\ generatedSlots' = [generatedSlots EXCEPT ![SlotsOwner(r)] = << >>]
        /\ sessionIdx' = [sessionIdx EXCEPT ![r] = 1]
        /\ pc' = [pc EXCEPT ![r] = "forEach"]
        /\ running' = r
        /\ UNCHANGED << world, query, startMin, endMin, sent, doctorLookups,
                        apptQueries, aborted >>

\* lines 161-166: the callback parses the session's start and end
SessionBegin(r) ==
    /\ ~aborted /\ running = r /\ pc[r] = "forEach"
    /\ sessionIdx[r] <= Len(daySchedule[r].sessions)
    /\ LET session == daySchedule[r].sessions[sessionIdx[r]]
       IN  /\ startMin' = [startMin EXCEPT ![r] = ParseMinutes(session.startTime)]
           /\ endMin' = [endMin EXCEPT ![r] = ParseMinutes(session.endTime)]
    /\ pc' = [pc EXCEPT ![r] = "while"]
    /\ UNCHANGED << world, query, dayIndex, daySchedule, sessionIdx,
                    generatedSlots, sent, doctorLookups, apptQueries, running,
                    aborted >>

\* lines 168-176: one iteration of the while loop
LoopIteration(r) ==
    /\ ~aborted /\ running = r /\ pc[r] = "while"
    /\ LoopCond(startMin[r], endMin[r])
    /\ Len(generatedSlots[SlotsOwner(r)]) < MaxHeapSlots
    /\ LET session == daySchedule[r].sessions[sessionIdx[r]]
       IN  /\ generatedSlots' = [generatedSlots EXCEPT ![SlotsOwner(r)] =
                                    Push(@, FormatSlot(startMin[r]))]
           /\ startMin' = [startMin EXCEPT ![r] =
                              Advance(@, session.slotDurationMinutes)]
    /\ UNCHANGED << world, pc, query, dayIndex, daySchedule, sessionIdx, endMin,
                    sent, doctorLookups, apptQueries, running, aborted >>

\* line 174 when the array no longer fits the heap: the engine aborts the
\* process; nothing after it runs and no response is written
HeapExhausted(r) ==
    /\ ~aborted /\ running = r /\ pc[r] = "while"
    /\ LoopCond(startMin[r], endMin[r])
    /\ Len(generatedSlots[SlotsOwner(r)]) >= MaxHeapSlots
    /\ aborted' = TRUE
    /\ UNCHANGED << world, pc, query, dayIndex, daySchedule, sessionIdx,
                    startMin, endMin, generatedSlots, sent, doctorLookups,
                    apptQueries, running >>

\* line 168 false: the callback returns and forEach moves on
SessionEnd(r) ==
    /\ ~aborted /\ running = r /\ pc[r] = "while"
    /\ ~LoopCond(startMin[r], endMin[r])
    /\ sessionIdx' = [sessionIdx EXCEPT ![r] = @ + 1]
    /\ pc' = [pc EXCEPT ![r] = "forEach"]
    /\ UNCHANGED << world, query, dayIndex, daySchedule, startMin, endMin,
                    generatedSlots, sent, doctorLookups, apptQueries, running,
                    aborted >>

\* lines 177-184: forEach is over; the appointment query starts and is awaited
QueryAppointments(r) ==
    /\ ~aborted /\ running = r /\ pc[r] = "forEach"
    /\ sessionIdx[r] > Len(daySchedule[r].sessions)
    /\ apptQueries' = [apptQueries EXCEPT ![r] = @ + 1]
    /\ pc' = [pc EXCEPT ![r] = "awaitAppointments"]
    /\ running' = 0
    /\ UNCHANGED << world, query, dayIndex, daySchedule, sessionIdx, startMin,
                    endMin, generatedSlots, sent, doctorLookups, aborted >>

\* line 180 rejects: lines 198-203
AppointmentQueryFails(r) ==
    /\ ~aborted /\ running = 0 /\ pc[r] = "awaitAppointments"
    /\ Respond(r, ServerError)
    /\ UNCHANGED << world, query, dayIndex, daySchedule, sessionIdx, startMin,
                    endMin, generatedSlots, doctorLookups, apptQueries, running,
                    aborted >>

\* lines 186-197
SendSlots(r) ==
    LET bookedTimes ==
            StartTimes(FindBooked(appointments, query[r].id, query[r].date))
        slots == Annotate(generatedSlots[SlotsOwner(r)], bookedTimes)
    IN  /\ ~aborted /\ running = 0 /\ pc[r] = "awaitAppointments"
        /\ Respond(r, SlotsResponse(slots))
        /\ UNCHANGED << world, query, dayIndex, daySchedule, sessionIdx,
                        startMin, endMin, generatedSlots, doctorLookups,
                        apptQueries, running, aborted >>

\* the invocation is over; its locals are gone and the next request may come
Release(r) ==
    /\ ~aborted /\ running = 0 /\ pc[r] = "done"
    /\ pc' = [pc EXCEPT ![r] = "idle"]
    /\ query' = [query EXCEPT ![r] = NoQuery]
    /\ dayIndex' = [dayIndex EXCEPT ![r] = 0]
    /\ daySchedule' = [daySchedule EXCEPT ![r] = NoDaySchedule]
    /\ sessionIdx' = [sessionIdx EXCEPT ![r] = 0]
    /\ startMin' = [startMin EXCEPT ![r] = 0]
    /\ endMin' = [endMin EXCEPT ![r] = 0]
    /\ generatedSlots' = [generatedSlots EXCEPT ![r] = << >>]
    /\ sent' = [sent EXCEPT ![r] = << >>]
    /\ doctorLookups' = [doctorLookups EXCEPT ![r] = 0]
    /\ apptQueries' = [apptQueries EXCEPT ![r] = 0]
    /\ UNCHANGED << world, running, aborted >>

\* what the handler does after it was called and its inputs are fixed
Continue(r) ==
    \/ DoctorLookupFails(r)
    \/ DoctorNotFound(r)
    \/ DayNotWorking(r)
    \/ BeginGeneration(r)
    \/ SessionBegin(r)
    \/ LoopIteration(r)
    \/ HeapExhausted(r)
    \/ SessionEnd(r)
    \/ QueryAppointments(r)
    \/ AppointmentQueryFails(r)
    \/ SendSlots(r)

\* a request arrives: any date (or none) and any doctor id
Arrive(r) ==
    \E date \in DatePool, id \in DoctorIdPool :
        \/ RejectNoDate(r, date, id)
        \/ LookupDoctor(r, date, id)

\* one invocation at a time, one request after the other
Next ==
    \/ Arrive(1)
    \/ Continue(1)
    \/ Release(1)

Spec == Init /\ [][Next]_vars

\* the event loop runs every continuation that is ready, and synchronous
\* code always takes its next step
FairSpec == Spec /\ WF_vars(Continue(1))

(***************************************************************************)
(* Several invocations in flight: they interleave at the awaits only.      *)
(***************************************************************************)
ConcTemplates == {TplDuplicateDays, TplOverlap, TplZeroDuration}

ConcDates == {NoDate, Mon0101, Tue0102}

InitConc ==
    /\ tzOffset \in TzPool
    /\ scheduleTemplate \in ConcTemplates
    /\ appointments \in {ApptsSome, ApptsFull}
    /\ InitLocals

ArriveConc(r) ==
    \E date \in ConcDates, id \in DoctorIdPool :
        \/ RejectNoDate(r, date, id)
        \/ LookupDoctor(r, date, id)

NextConc ==
    \E r \in Requests :
        \/ ArriveConc(r)
        \/ Continue(r)
        \/ Release(r)

SpecConc == InitConc /\ [][NextConc]_vars

(***************************************************************************)
(* Vocabulary of the properties, defined without the handler's own         *)
(* parsing and formatting.                                                 *)
(***************************************************************************)
\* t is a zero-padded "HH:MM" string
IsHHMM(t) ==
    /\ Len(t) = 5
    /\ t[3] = ":"
    /\ \A i \in {1, 2, 4, 5} : IsDigit(t[i])

\* minutes since midnight of a zero-padded "HH:MM" string
MinutesOf(t) ==
    (DigitVal(t[1]) * 10 + DigitVal(t[2])) * 60 + DigitVal(t[4]) * 10 + DigitVal(t[5])

\* the zero-padded "HH:MM" string of a minute of the day below 100:00
HHMM(min) ==
    LET h == min \div 60
        m == min % 60
    IN  << DigitChar(h \div 10), DigitChar(h % 10), ":",
           DigitChar(m \div 10), DigitChar(m % 10) >>

\* the session contract of the data model: start < end and a positive duration
WellFormed(s) ==
    /\ MinutesOf(s.startTime) < MinutesOf(s.endTime)
    /\ s.slotDurationMinutes > 0

\* start + k * duration for k = 0, 1, ... below the end, as minutes
ExpectedStarts(s) ==
    LET a == MinutesOf(s.startTime)
        b == MinutesOf(s.endTime)
        d == s.slotDurationMinutes
    IN  IF WellFormed(s)
        THEN { a + k * d : k \in { j \in 0 .. (b - a) : a + j * d < b } }
        ELSE {}

\* the starts of a session in increasing order, as "HH:MM"
ExpectedSession(s) ==
    [k \in 1 .. Cardinality(ExpectedStarts(s)) |->
        HHMM(MinutesOf(s.startTime) + (k - 1) * s.slotDurationMinutes)]

\* the sessions' slots one after the other, in the order of the sessions
RECURSIVE ExpectedDay(_)
ExpectedDay(sessions) ==
    IF Len(sessions) = 0 THEN << >>
    ELSE ExpectedDay(SubSeq(sessions, 1, Len(sessions) - 1))
            \o ExpectedSession(sessions[Len(sessions)])

CurrentSession(r) == daySchedule[r].sessions[sessionIdx[r]]

\* what the session being processed has pushed so far
Emitted(r) ==
    LET before == Len(ExpectedDay(SubSeq(daySchedule[r].sessions, 1, sessionIdx[r] - 1)))
    IN  SubSeq(generatedSlots[r], before + 1, Len(generatedSlots[r]))

\* the only response of an invocation that has answered
Answer(r) == sent[r][1]

Answered(r) == pc[r] = "done" /\ Len(sent[r]) = 1

\* the invocation answered with a slot list computed from a working day
AnsweredSlots(r) == Answered(r) /\ Answer(r).hasTotal

Times(slots) == [i \in 1 .. Len(slots) |-> slots[i].time]

(***************************************************************************)
(* C1: for a session with startMinutes < endMinutes and a positive         *)
(* duration d the loop emits exactly startMinutes + k*d, k = 0, 1, ...,    *)
(* below endMinutes, in increasing order, each once, as zero-padded        *)
(* "HH:MM"; when the loop is left the count is the number of such values,  *)
(* and (endMinutes - startMinutes) / d when d divides the length.          *)
(***************************************************************************)
C1_SlotGeneration ==
    \A r \in Requests :
        (pc[r] = "while" /\ WellFormed(CurrentSession(r))) =>
            LET s  == CurrentSession(r)
                a  == MinutesOf(s.startTime)
                b  == MinutesOf(s.endTime)
                d  == s.slotDurationMinutes
                em == Emitted(r)
            IN  /\ \A k \in 1 .. Len(em) :
                      /\ IsHHMM(em[k])
                      /\ MinutesOf(em[k]) = a + (k - 1) * d
                      /\ MinutesOf(em[k]) < b
                /\ startMin[r] = a + Len(em) * d
                /\ startMin[r] >= b =>
                      /\ { MinutesOf(em[k]) : k \in 1 .. Len(em) } = ExpectedStarts(s)
                      /\ Len(em) = Cardinality(ExpectedStarts(s))
                      /\ (b - a) % d = 0 => Len(em) = (b - a) \div d

\* a session whose duration does not divide its length has been generated,
\* with a last slot that would run past the end
C1_Witness ==
    \E r \in Requests :
        /\ pc[r] = "while" /\ WellFormed(CurrentSession(r))
        /\ startMin[r] > endMin[r]
        /\ Len(Emitted(r)) >= 3

BookedStartTimes(r) ==
    { a.startTime : a \in { x \in appointments :
                              /\ x.doctorId = query[r].id
                              /\ x.date = query[r].date
                              /\ x.status = "booked" } }

(***************************************************************************)
(* C2: the returned slots have the length and order of the generated list, *)
(* the i-th has time G[i], and its status is "booked" iff G[i] is one of   *)
(* the booked start times of the doctor and date (same string), else       *)
(* "available"; booked times that match no slot add nothing.               *)
(***************************************************************************)
C2_Annotation ==
    \A r \in Requests :
        AnsweredSlots(r) =>
            LET G     == generatedSlots[r]
                slots == Answer(r).slots
            IN  /\ Len(slots) = Len(G)
                /\ Answer(r).totalSlots = Len(G)
                /\ \A i \in 1 .. Len(G) :
                      /\ slots[i].time = G[i]
                      /\ slots[i].status \in {"booked", "available"}
                      /\ slots[i].status = "booked" <=> G[i] \in BookedStartTimes(r)

\* booked and available slots side by side, a cancelled appointment on a slot
\* and booked times that match no slot
C2_Witness ==
    \E r \in Requests :
        /\ AnsweredSlots(r)
        /\ \E i, j \in 1 .. Len(Answer(r).slots) :
              /\ Answer(r).slots[i].status = "booked"
              /\ Answer(r).slots[j].status = "available"
              /\ \E x \in appointments :
                    /\ x.startTime = Answer(r).slots[j].time
                    /\ x.doctorId = query[r].id /\ x.date = query[r].date
                    /\ x.status = "cancelled"
        /\ \E t \in BookedStartTimes(r) : ~Includes(generatedSlots[r], t)

MonthKey == <<0, 3, 2, 5, 0, 3, 5, 1, 4, 6, 2, 4>>

Weekday(date) ==
    LET y == IF date.m < 3 THEN date.y - 1 ELSE date.y
    IN  (y + y \div 4 - y \div 100 + y \div 400 + MonthKey[date.m] + date.d) % 7

\* rows of a template that are working rows of weekday w, by position
WorkingRows(tpl, w) ==
    { i \in 1 .. Len(tpl) : tpl[i].dayOfWeek = w /\ tpl[i].isWorking }

\* the invocation has looked the day up (line 146 has run)
Resolved(r) ==
    \/ pc[r] \in {"forEach", "while", "awaitAppointments"}
    \/ Answered(r) /\ Answer(r).hasSlots

(***************************************************************************)
(* C3: a session that violates the session contract (start not below end,  *)
(* or a duration that is not positive) contributes zero slots and the      *)
(* request does not fail.                                                  *)
(***************************************************************************)
C3_MalformedSkipped ==
    \A r \in Requests :
        (pc[r] = "while" /\ ~WellFormed(CurrentSession(r))) =>
            /\ Emitted(r) = << >>
            /\ ~aborted

\* the part of C3 the code keeps: start >= end contributes nothing
C3_EmptyWhenStartNotBelowEnd ==
    \A r \in Requests :
        (/\ pc[r] = "while"
         /\ MinutesOf(CurrentSession(r).startTime) >= MinutesOf(CurrentSession(r).endTime))
            => Emitted(r) = << >> /\ ~aborted

(***************************************************************************)
(* C4: for every stored template the generation loop terminates and the    *)
(* handler eventually sends a response.                                    *)
(***************************************************************************)
C4_Terminates ==
    \A r \in Requests : (pc[r] = "forEach") ~> (pc[r] = "done" /\ Len(sent[r]) = 1)

\* the variant of the loop: every iteration brings startMin closer to endMin
C4_IterationApproachesEnd ==
    [][\A r \in Requests :
          (pc[r] = "while" /\ startMin'[r] # startMin[r])
              => endMin[r] - startMin'[r] < endMin[r] - startMin[r]]_vars

\* an iteration that leaves startMin where it was: the loop cannot end
C4_IterationMoves ==
    [][\A r \in Requests :
          (pc[r] = "while" /\ pc'[r] = "while" /\ ~aborted')
              => startMin'[r] # startMin[r]]_vars

(***************************************************************************)
(* C5: the answer is the empty list with the "not available" message iff   *)
(* the template has no working row for the date's weekday; with such a row *)
(* the answer carries no such message, and when every generated slot is    *)
(* booked the answer is a non-empty list of booked slots.                  *)
(***************************************************************************)
C5_Distinguishable ==
    \A r \in Requests :
        (Answered(r) /\ Answer(r).hasSlots) =>
            LET has == WorkingRows(scheduleTemplate, Weekday(query[r].date)) # {}
                a   == Answer(r)
            IN  /\ (a = NotAvailable) <=> ~has
                /\ has => a.message # NotAvailable.message
                /\ (has /\ \A i \in 1 .. Len(a.slots) : a.slots[i].status = "booked")
                      => Len(a.slots) > 0

\* C5 with the handler's day index for the weekday, and the fully booked
\* case for days that generate a slot
C5_OnDayIndex ==
    \A r \in Requests :
        (Answered(r) /\ Answer(r).hasSlots) =>
            LET has == WorkingRows(scheduleTemplate, dayIndex[r]) # {}
                a   == Answer(r)
            IN  /\ (a = NotAvailable) <=> ~has
                /\ has => a.message # NotAvailable.message /\ a.hasTotal

(***************************************************************************)
(* C6: the day index used for the lookup is the weekday of the calendar    *)
(* date of the query, whatever the time zone of the server process.        *)
(***************************************************************************)
C6_WeekdayOfDate ==
    \A r \in Requests : Resolved(r) => dayIndex[r] = Weekday(query[r].date)

\* what holds instead: the weekday of the date in zones at or east of UTC
C6_WeekdayEastOfUTC ==
    \A r \in Requests :
        (Resolved(r) /\ tzOffset >= 0) => dayIndex[r] = Weekday(query[r].date)

\* the execution of the handler is over: it returned, or the process died in it
Ended(r) == pc[r] = "done" \/ (aborted /\ running = r)

\* the rejections of C7 and their order, without the count of responses at the end
C7_RejectionOrder ==
    \A r \in Requests :
        /\ Len(sent[r]) <= 1
        /\ (pc[r] # "idle" /\ ~query[r].date.present) =>
              /\ sent[r] = <<DateRequired>>
              /\ doctorLookups[r] = 0 /\ apptQueries[r] = 0
              /\ generatedSlots[r] = << >>
        /\ (Answered(r) /\ Answer(r).status = 400) => ~query[r].date.present
        /\ (pc[r] # "idle" /\ query[r].date.present /\ query[r].id \notin KnownDoctors) =>
              /\ doctorLookups[r] = 1 /\ apptQueries[r] = 0
              /\ generatedSlots[r] = << >>
              /\ pc[r] \in {"awaitDoctor", "done"}
              /\ Answered(r) => Answer(r) \in {DoctorNotFoundResponse, ServerError}
        /\ (Answered(r) /\ Answer(r).status = 404) => query[r].id \notin KnownDoctors

(***************************************************************************)
(* C7: a request without a date is answered 400 with no doctor lookup, no  *)
(* appointment query and no generation; a request with a date and an       *)
(* unknown doctor id is answered 404 (500 when the lookup itself rejects)  *)
(* with no generation and no appointment query; every execution sends      *)
(* exactly one response.                                                   *)
(***************************************************************************)
C7_RejectionsFirstOneResponse ==
    /\ C7_RejectionOrder
    /\ \A r \in Requests : Ended(r) => Len(sent[r]) = 1

(***************************************************************************)
(* C9: an invocation's response is determined by its own inputs: two       *)
(* invocations with the same query that both read the collections          *)
(* successfully give the same response, and the slots an invocation        *)
(* returns are those of its own day schedule, whatever else is in flight.  *)
(***************************************************************************)
C9_NoHiddenState ==
    /\ \A r1, r2 \in Requests :
          (/\ Answered(r1) /\ Answered(r2)
           /\ query[r1] = query[r2]
           /\ Answer(r1) # ServerError /\ Answer(r2) # ServerError)
              => Answer(r1) = Answer(r2)
    /\ \A r \in Requests :
          AnsweredSlots(r) => Times(Answer(r).slots) = ExpectedDay(daySchedule[r].sessions)

\* two invocations answered with different slot lists at the same time
C9_Witness ==
    \E r1, r2 \in Requests :
        /\ r1 # r2
        /\ AnsweredSlots(r1) /\ AnsweredSlots(r2)
        /\ Len(Answer(r1).slots) > 0 /\ Len(Answer(r2).slots) > 0
        /\ Times(Answer(r1).slots) # Times(Answer(r2).slots)

FirstWorkingRow(tpl, w) ==
    CHOOSE i \in WorkingRows(tpl, w) : \A j \in WorkingRows(tpl, w) : i <= j

(***************************************************************************)
(* C10: with several rows for the date's weekday the handler uses the      *)
(* first working one in template order; non-working rows before it are     *)
(* skipped and working rows after it contribute no slots.                  *)
(***************************************************************************)
C10_FirstMatchWins ==
    \A r \in Requests :
        LET w == Weekday(query[r].date)
        IN  (Resolved(r) /\ WorkingRows(scheduleTemplate, w) # {}) =>
                /\ daySchedule[r].found
                /\ daySchedule[r].sessions =
                       scheduleTemplate[FirstWorkingRow(scheduleTemplate, w)].sessions
                /\ AnsweredSlots(r) =>
                       Times(Answer(r).slots) =
                           ExpectedDay(scheduleTemplate[FirstWorkingRow(scheduleTemplate, w)].sessions)

\* C10 with the handler's day index for the weekday
C10_FirstMatchOnDayIndex ==
    \A r \in Requests :
        (Resolved(r) /\ WorkingRows(scheduleTemplate, dayIndex[r]) # {}) =>
            /\ daySchedule[r].found
            /\ daySchedule[r].sessions =
                   scheduleTemplate[FirstWorkingRow(scheduleTemplate, dayIndex[r])].sessions

====
